---- MODULE Spec2Model ----
(***************************************************************************)
(* Stream session controller of rtsp_streamer_gui.py (StreamingApp):       *)
(* start_stream / stop_stream / toggle_stream / destroy on the Tk control  *)
(* thread, the output pump and exit watcher threads, the deferred          *)
(* _reset_ui callback, and the child processes (ffmpeg capture, mediamtx   *)
(* relay) they supervise.                                                  *)
(***************************************************************************)
EXTENDS Integers, Sequences, FiniteSets, Bags, TLC

\* ---------------------------------------------------------------- bounds
\* Child processes (ffmpeg and mediamtx) the controller may launch in one run.
MaxProcs == 2
\* Output bursts one process emits in one run.
MaxBursts == 1
\* Output bursts one process emits in a run that fills the tails.
MaxTailBursts == 5
\* Characters of the port, host and path texts entered.
MaxPortLen == 5
MaxHostLen == 1
MaxPathLen == 2
\* Longest timeout passed to _wait_for_port, in ticks of 0.1s.
MaxTimeout == 8

\* ------------------------------------------------------ program constants
\* deque(maxlen=80)
TailCap == 80
\* list(self._out_tail)[-20:]
DiagLines == 20
\* for _ in range(20): poll / sleep(0.1)
GracePolls == 20
\* socket.create_connection(..., timeout=0.5), in ticks of 0.1s
ConnectTimeout == 5
\* time.sleep(0.2) in _wait_for_port, in ticks of 0.1s
PollInterval == 2

\* ------------------------------------------------------------ input sets
\* Lines read from a pipe between two observations by another thread.
Bursts == {1, DiagLines + 1}
\* Exit codes of a process that ends by itself.
ExitCodes == {0, 1}
\* Timeouts passed to _wait_for_port, in ticks of 0.1s.
Timeouts == 0..MaxTimeout

VARIABLES
    max_procs,          \* child processes this run may launch (a bound)
    max_bursts,         \* output bursts a process may emit in this run (a
                        \* bound)
    os_name,            \* os.name: "nt" or "posix"
    ffmpeg_path,        \* self.ffmpeg_path is set (an executable was found)
    device_var,             \* self.device_var holds a device name
    host_var,           \* self.host_var, a text
    port_var,           \* self.port_var, a text
    path_var,           \* self.path_var, a text
    procs,              \* every child process launched so far, by pid 1..Len
    stray_mtx,          \* a mediamtx that this program did not launch runs
    stray_ffmpeg,       \* an ffmpeg that this program did not launch runs
                        \* (followed in the runs with no device selected,
                        \* where it is all a kill-by-name can reach)
    proc,               \* self.proc (0 = None)
    mtx_proc,           \* self.mtx_proc (0 = None)
    mtx_launched_here,  \* self.mtx_launched_here
    stop_event,         \* self.stop_event.is_set()
    status_var,             \* self.status_var
    _out_tail,           \* self._out_tail
    _mtx_tail,           \* self._mtx_tail
    threads,            \* bag of running daemon threads
    afterq,             \* pending master.after(0, _reset_ui) callbacks
    reported,           \* "Stream stopped" error dialogs shown by watchers,
                        \* each with whether stop_stream had been called on
                        \* the process by then
    ctl,                \* position of the control (Tk main) thread
    tgt,                \* what the _rtsp_target call under study returned
    wfp,                \* the _wait_for_port call under study
    att,                \* the start attempt in progress (history)
    ev                  \* the step just taken (history)

vars == <<max_procs, max_bursts, os_name, ffmpeg_path, device_var, host_var, port_var,
          path_var, procs, stray_mtx, stray_ffmpeg, proc, mtx_proc,
          mtx_launched_here, stop_event, status_var, _out_tail, _mtx_tail,
          threads, afterq, reported, ctl, tgt, wfp, att, ev>>

\* What no handler of the session changes: the bound of the run, the
\* platform, the executable found and the settings entered.
config == <<max_procs, max_bursts, os_name, ffmpeg_path, device_var, host_var, port_var,
            path_var>>

\* The helper calls studied by themselves.
calls == <<tgt, wfp>>

\* The session: what the helper calls studied by themselves leave alone.
session == <<procs, stray_mtx, stray_ffmpeg, proc, mtx_proc,
             mtx_launched_here, stop_event, status_var, _out_tail, _mtx_tail,
             threads, afterq, reported, ctl, att, ev>>

\* ------------------------------------------------------------- processes
\* Polls (0.1s each) after which a process is gone once it has been sent the
\* graceful signal: at once, or not within the grace period (it handles or
\* ignores SIGTERM).  TerminateProcess on Windows leaves a process no choice.
Lags == IF os_name = "nt" THEN {0} ELSE {0, GracePolls + 1}

Pids == 1..Len(procs)

Alive(ps, p) == p # 0 /\ ps[p].alive

\* subprocess.Popen(cmd, ...): a new child process with the next pid.
NewProc(kind, lag) ==
    [kind |-> kind, alive |-> TRUE, rc |-> 0, lag |-> lag,
     stopreq |-> FALSE, refused |-> FALSE, forced |-> FALSE, out |-> 0,
     bursts |-> 0]

\* Return code of a process ended by a signal: TerminateProcess(handle, 1)
\* on Windows, the negated signal number elsewhere.
TermRc == IF os_name = "nt" THEN 1 ELSE -15
KillRc == IF os_name = "nt" THEN 1 ELSE -9

\* The process r once it has ended with return code rc.  The program reads
\* the return code of the capture process only (rc = p.wait()); of the relay
\* it only asks whether poll() is None.
Exited(r, rc) ==
    [r EXCEPT !.alive = FALSE, !.lag = 0,
              !.rc = IF r.kind = "ffmpeg" THEN rc ELSE 0]

Launched(ps, kind) == Cardinality({i \in DOMAIN ps : ps[i].kind = kind})

\* for _ in range(20): if p.poll() is not None: break; time.sleep(0.1)
\* The number of sleeps made before the loop ends, for a process that is
\* gone `lag` polls after the graceful signal.
RECURSIVE PollLoop(_, _)
PollLoop(lag, i) ==
    IF i = GracePolls THEN i
    ELSE IF lag <= i THEN i
    ELSE PollLoop(lag, i + 1)

\* p.terminate(): TerminateProcess on Windows, SIGTERM elsewhere.  A process
\* that has exited receives nothing (Popen polls before it signals).
terminate_unpolled(r) ==
    IF os_name = "nt" \/ r.lag = 0 THEN Exited(r, TermRc) ELSE r

terminate(r) ==
    IF ~r.alive THEN r
    ELSE IF os_name = "nt" \/ r.lag = 0 THEN Exited(r, TermRc)
    ELSE r

\* p.kill()
kill(r) ==
    IF ~r.alive THEN r
    ELSE [Exited(r, KillRc) EXCEPT !.forced = TRUE]

\* p.terminate(); poll loop; if p.poll() is None: p.kill()
Grace(r) ==
    LET t == terminate(r)
        waited == PollLoop(r.lag, 0)
    IN  IF ~t.alive THEN t
        ELSE IF r.lag <= waited THEN Exited(t, TermRc)
        ELSE kill(t)

\* taskkill /IM name /F, pkill -f name, killall name: every running process
\* of that executable name, when the tool is there and works (ok); pkill and
\* killall send SIGTERM, taskkill /F forces.  (ps holds the processes this
\* program launched; a relay it did not launch is gone after a kill for
\* mediamtx that worked, see KillsThenEnsure.)
_kill_existing(ps, kind, ok) ==
    [i \in DOMAIN ps |->
        IF ok /\ ps[i].kind = kind /\ ps[i].alive
              /\ (os_name = "nt" \/ ps[i].lag = 0)
        THEN Exited(ps[i], TermRc)
        ELSE ps[i]]

\* ----------------------------------------------------------------- tails
\* deque(maxlen=80).append(x)
TailAppendUnbounded(t, x) == Append(t, x)

TailAppend(t, x) ==
    LET s == Append(t, x)
    IN  IF Len(s) > TailCap THEN SubSeq(s, 2, Len(s)) ELSE s

\* k successive lines of process p, the first being its line number n + 1.
RECURSIVE AppendLines(_, _, _, _)
AppendLines(t, p, n, k) ==
    IF k = 0 THEN t
    ELSE AppendLines(TailAppend(t, <<p, n + 1>>), p, n + 1, k - 1)

\* list(tail)[-20:]
LastLines(t) ==
    IF Len(t) <= DiagLines THEN t
    ELSE SubSeq(t, Len(t) - DiagLines + 1, Len(t))

\* ----------------------------------------------------------------- texts
\* A text is a sequence of characters.
RECURSIVE TextsUpTo(_, _)
TextsUpTo(chars, n) ==
    IF n = 0 THEN {<<>>}
    ELSE LET shorter == TextsUpTo(chars, n - 1)
         IN  shorter \cup {Append(t, c) : t \in shorter, c \in chars}

\* What can be typed into the three entries (or loaded from the settings
\* file): digits, a sign and a blank for the port; a letter and a blank for
\* the host; a letter and the separator for the path.
PortTexts == TextsUpTo({"0", "7", "-", " "}, MaxPortLen)
HostTexts == TextsUpTo({"h", " "}, MaxHostLen)
PathTexts == TextsUpTo({"s", "/"}, MaxPathLen)

\* tk.StringVar(value="127.0.0.1"), "8554", "live.stream"
DefaultHost == <<"1", "2", "7", ".", "0", ".", "0", ".", "1">>
DefaultPort == <<"8", "5", "5", "4">>
DefaultPath == <<"l", "i", "v", "e", ".", "s", "t", "r", "e", "a", "m">>

DigitChars == <<"0", "1", "2", "3", "4", "5", "6", "7", "8", "9">>

IsDigit(c) == \E i \in 1..10 : DigitChars[i] = c

DigitVal(c) == (CHOOSE i \in 1..10 : DigitChars[i] = c) - 1

\* str.lstrip(c)
RECURSIVE lstrip(_, _)
lstrip(t, c) ==
    IF t # <<>> /\ Head(t) = c THEN lstrip(Tail(t), c) ELSE t

\* str.rstrip(c)
RECURSIVE rstrip(_, _)
rstrip(t, c) ==
    IF t # <<>> /\ t[Len(t)] = c THEN rstrip(SubSeq(t, 1, Len(t) - 1), c)
    ELSE t

\* str.strip(): blanks off both ends.
strip(t) == rstrip(lstrip(t, " "), " ")

\* The value of a run of digits.
RECURSIVE DigitsVal(_)
DigitsVal(t) ==
    IF t = <<>> THEN 0
    ELSE 10 * DigitsVal(SubSeq(t, 1, Len(t) - 1)) + DigitVal(t[Len(t)])

\* int(text): blanks around the number are allowed, then an optional sign
\* and at least one digit; anything else raises ValueError.
int(t) ==
    LET u == strip(t)
        neg == u # <<>> /\ Head(u) = "-"
        d == IF neg THEN Tail(u) ELSE u
    IN  IF d # <<>> /\ \A i \in 1..Len(d) : IsDigit(d[i])
        THEN [ok |-> TRUE, val |-> IF neg THEN 0 - DigitsVal(d)
                                   ELSE DigitsVal(d)]
        ELSE [ok |-> FALSE, val |-> 0]

\* str(n) of an integer, as f"{self.port}" formats it.
RECURSIVE str(_)
str(n) ==
    IF n < 0 THEN <<"-">> \o str(0 - n)
    ELSE IF n < 10 THEN <<DigitChars[n + 1]>>
    ELSE str(n \div 10) \o <<DigitChars[(n % 10) + 1]>>

\* x or default, for texts.
OrDefault(x, default) == IF x = <<>> THEN default ELSE x

\* _rtsp_target: RtspTarget(host=host, port=port, path=path)
_rtsp_target ==
    [host |-> strip(OrDefault(host_var, DefaultHost)),
     port |-> IF int(port_var).ok THEN int(port_var).val ELSE 8554,
     path |-> lstrip(OrDefault(path_var, DefaultPath), "/")]

\* RtspTarget.url: f"rtsp://{self.host}:{self.port}/{self.path}"
url(t) ==
    <<"r", "t", "s", "p", ":", "/", "/">> \o t.host \o <<":">>
        \o str(t.port) \o <<"/">> \o t.path

\* No _rtsp_target call has returned.
NoTarget == [host |-> <<>>, port |-> 0, path |-> <<>>, url |-> <<>>]

\* -------------------------------------------------------- _wait_for_port
\* The _wait_for_port call under study: where it is, the timeout it was
\* given, its deadline and the time, both counted in ticks of 0.1s from
\* the call, whether a listener is bound to (host, port) and was when the
\* call was made, what the call returned, and of its connection attempts
\* their number, when the last one began and how it ended.
NoCall ==
    [pc |-> "none", timeout |-> 0, deadline |-> 0, now |-> 0,
     listening |-> FALSE, bound0 |-> FALSE, ret |-> FALSE, attempts |-> 0,
     began |-> 0, conn |-> "none"]

\* deadline = time.time() + timeout
Called(timeout, listening) ==
    [NoCall EXCEPT !.pc = "loop", !.timeout = timeout, !.deadline = timeout,
                   !.listening = listening, !.bound0 = listening]

\* while time.time() < deadline
DeadlinePendingIncl(now, deadline) == now <= deadline

DeadlinePending(now, deadline) == now < deadline

\* How socket.create_connection may end: connected when a listener is
\* bound; refused, timed out after 0.5s or failed otherwise when none is.
ConnOutcomes ==
    IF wfp.listening THEN {"connected"} ELSE {"refused", "timeout", "error"}

\* _is_port_open: True in the with block, False for every Exception.
_is_port_open_unless_timeout(conn) == conn # "timeout"

_is_port_open(conn) == conn = "connected"

\* _wait_for_port: the loop condition, and "return False" after the loop.
_wait_for_port_loop ==
    /\ wfp.pc = "loop"
    /\ wfp' = IF DeadlinePending(wfp.now, wfp.deadline)
              THEN [wfp EXCEPT !.pc = "try"]
              ELSE [wfp EXCEPT !.pc = "done", !.ret = FALSE]
    /\ UNCHANGED <<config, tgt, session>>

\* _wait_for_port: if self._is_port_open(host, port): return True.  The
\* attempt takes up to the connection timeout.
_wait_for_port_try ==
    /\ wfp.pc = "try"
    /\ \E conn \in ConnOutcomes, d \in 0..ConnectTimeout :
        /\ conn = "timeout" => d = ConnectTimeout
        /\ wfp' = [wfp EXCEPT !.attempts = @ + 1,
                              !.began = wfp.now,
                              !.conn = conn,
                              !.now = @ + d,
                              !.ret = _is_port_open(conn),
                              !.pc = IF _is_port_open(conn) THEN "done"
                                     ELSE "sleep"]
    /\ UNCHANGED <<config, tgt, session>>

\* _wait_for_port: time.sleep(0.2)
_wait_for_port_sleep ==
    /\ wfp.pc = "sleep"
    /\ wfp' = [wfp EXCEPT !.now = @ + PollInterval, !.pc = "loop"]
    /\ UNCHANGED <<config, tgt, session>>

\* The relay (or any server) binds the port while the call waits.
PortBound ==
    /\ wfp.pc \in {"loop", "try", "sleep"}
    /\ ~wfp.listening
    /\ wfp' = [wfp EXCEPT !.listening = TRUE]
    /\ UNCHANGED <<config, tgt, session>>

\* --------------------------------------------------------------- history
\* The start attempt in progress: what _ensure_mediamtx_running and
\* _wait_for_port returned in it, the relay it launched (0 = none), the
\* status and the number of capture processes when it began, and the
\* executables it has called kill-by-name for, in order.
NoAttempt == [ensured |-> FALSE, probed |-> FALSE, fresh |-> 0, nff |-> 0,
              status0 |-> "Inactive", kills |-> <<>>]

\* The step just taken: the operation, how it ended, the handle it acted on,
\* the attempt it belongs to, and the executables the step called
\* kill-by-name for, in order, with whether each call found its kill tool
\* and the tool worked, and the terminate() and kill() calls the step made
\* on the handles' processes, in order.
Event(op, res, p, a) ==
    [op |-> op, res |-> res, p |-> p, att |-> a, kills |-> <<>>,
     killok |-> <<>>, log |-> <<>>]

ThreadEv == Event("thread", "-", 0, NoAttempt)

\* ------------------------------------------------------------------ Init
\* StreamingApp.__init__, in a run that may launch n child processes.
Constructed(n) ==
    /\ max_procs = n
    /\ max_bursts = MaxBursts
    /\ os_name \in {"nt", "posix"}
    /\ ffmpeg_path \in BOOLEAN
    /\ device_var \in BOOLEAN
    /\ host_var = DefaultHost
    /\ port_var = DefaultPort
    /\ path_var = DefaultPath
    /\ tgt = NoTarget
    /\ wfp = NoCall
    /\ stray_ffmpeg \in {b \in BOOLEAN : device_var => ~b}
    /\ procs = <<>>
    /\ proc = 0
    /\ mtx_proc = 0
    /\ mtx_launched_here = FALSE
    /\ stop_event = FALSE
    /\ status_var = "Inactive"
    /\ _out_tail = <<>>
    /\ _mtx_tail = <<>>
    /\ threads = EmptyBag
    /\ afterq = 0
    /\ reported = {}
    /\ ctl = "idle"
    /\ att = NoAttempt
    /\ \E ok \in BOOLEAN :
        /\ stray_mtx \in {b \in BOOLEAN : ok => ~b}
        /\ ev = [Event("init", "-", 0, NoAttempt)
                   EXCEPT !.kills = <<"mediamtx">>, !.killok = <<ok>>]

Init == Constructed(MaxProcs)

\* A run long enough for a second capture process beside the relay.
InitTwoCaptures == Constructed(MaxProcs + 1)

\* --------------------------------------------------------------- threads
Thread(type, pc, p, rc) == [type |-> type, pc |-> pc, p |-> p, rc |-> rc]

One(t) == SetToBag({t})

\* threading.Thread(target=..., daemon=True).start() at the end of
\* start_stream: the pump and the watcher always, the relay pump "if we
\* launched it".
Spawned ==
    One(Thread("pump", "init", 0, 0)) (+) One(Thread("watch", "init", 0, 0))
    (+) (IF mtx_proc # 0 /\ mtx_launched_here
         THEN One(Thread("mtxpump", "init", 0, 0)) ELSE EmptyBag)

\* ---------------------------------------------------------- start_stream
\* if self.proc is not None: if self.proc.poll() is None: return
IsDuplicateStartMut == FALSE

IsDuplicateStartByHandle == proc # 0

IsDuplicateStart == proc # 0 /\ procs[proc].alive

\* _kill_existing_ffmpeg then _kill_existing_mediamtx, with the outcome of
\* each kill tool.  (self.proc is None here, so _kill_existing_ffmpeg finds
\* no tracked process to stop first.)
PreStartKills(ps, okF, okM) ==
    _kill_existing(_kill_existing(ps, "ffmpeg", okF), "mediamtx", okM)

\* _ensure_mediamtx_running: the outcome is "nopath" (no executable found),
\* "raise" (Popen raised) or "ok".
_ensure_mediamtx_running_keepflag(ps, outcome, lag) ==
    IF Alive(ps, mtx_proc)
    THEN [ret |-> TRUE, procs |-> ps, mtx |-> mtx_proc,
          flag |-> mtx_launched_here, fresh |-> 0]
    ELSE IF outcome = "nopath"
    THEN [ret |-> FALSE, procs |-> ps, mtx |-> mtx_proc,
          flag |-> mtx_launched_here, fresh |-> 0]
    ELSE IF outcome = "raise"
    THEN [ret |-> FALSE, procs |-> ps, mtx |-> 0,
          flag |-> mtx_launched_here, fresh |-> 0]
    ELSE [ret |-> TRUE, procs |-> Append(ps, NewProc("mediamtx", lag)),
          mtx |-> Len(ps) + 1, flag |-> TRUE, fresh |-> Len(ps) + 1]

_ensure_mediamtx_running(ps, outcome, lag) ==
    IF Alive(ps, mtx_proc)
    THEN [ret |-> TRUE, procs |-> ps, mtx |-> mtx_proc,
          flag |-> mtx_launched_here, fresh |-> 0]
    ELSE IF outcome = "nopath"
    THEN [ret |-> FALSE, procs |-> ps, mtx |-> mtx_proc,
          flag |-> mtx_launched_here, fresh |-> 0]
    ELSE IF outcome = "raise"
    THEN [ret |-> FALSE, procs |-> ps, mtx |-> 0, flag |-> FALSE, fresh |-> 0]
    ELSE [ret |-> TRUE, procs |-> Append(ps, NewProc("mediamtx", lag)),
          mtx |-> Len(ps) + 1, flag |-> TRUE, fresh |-> Len(ps) + 1]

\* start_stream from _kill_existing_ffmpeg to _ensure_mediamtx_running:
\* both kills, then the relay; what _ensure_mediamtx_running returns, with
\* the kills made.
KillsAfterEnsure(okF, okM, outcome, lag) ==
    LET e == _ensure_mediamtx_running(procs, outcome, lag)
    IN  [e EXCEPT !.procs = PreStartKills(e.procs, okF, okM)]
            @@ [kills |-> <<"ffmpeg", "mediamtx">>, killok |-> <<okF, okM>>,
            stray |-> stray_mtx /\ ~okM]

KillsOrReturn(okF, okM, outcome, lag) ==
    (IF okF /\ okM
     THEN _ensure_mediamtx_running(PreStartKills(procs, okF, okM), outcome, lag)
     ELSE [ret |-> FALSE, procs |-> procs, mtx |-> mtx_proc,
           flag |-> mtx_launched_here, fresh |-> 0])
        @@ [kills |-> <<"ffmpeg", "mediamtx">>, killok |-> <<okF, okM>>,
            stray |-> stray_mtx /\ ~okM]

KillsThenEnsure(okF, okM, outcome, lag) ==
    _ensure_mediamtx_running(PreStartKills(procs, okF, okM), outcome, lag)
        @@ [kills |-> <<"ffmpeg", "mediamtx">>, killok |-> <<okF, okM>>,
            stray |-> stray_mtx /\ ~okM]

\* if not self._wait_for_port(...): ...; return
AfterProbeMut(ready) == "launch"

AfterProbe(ready) == IF ready THEN "launch" ELSE "idle"

\* start_stream up to and including _ensure_mediamtx_running.
start_stream ==
    /\ ctl = "idle"
    /\ UNCHANGED <<config, calls, _out_tail, _mtx_tail, threads, afterq, reported,
                   status_var>>
    /\ IF IsDuplicateStart
       THEN /\ UNCHANGED <<procs, stray_mtx, stray_ffmpeg, proc, mtx_proc, mtx_launched_here,
                           stop_event, ctl, att>>
            /\ ev' = Event("start_stream", "dup", proc, NoAttempt)
       ELSE IF ~ffmpeg_path
       THEN /\ proc' = 0
            /\ UNCHANGED <<procs, stray_mtx, stray_ffmpeg, mtx_proc, mtx_launched_here,
                           stop_event, ctl, att>>
            /\ ev' = Event("start_stream", "no_ffmpeg", 0, NoAttempt)
       ELSE IF ~device_var
       THEN /\ proc' = 0
            /\ \E ok \in BOOLEAN :
                /\ procs' = _kill_existing(procs, "ffmpeg", ok)
                /\ stray_ffmpeg' = (stray_ffmpeg /\ ~ok)
                /\ ev' = [Event("start_stream", "bad_settings", 0, NoAttempt)
                            EXCEPT !.kills = <<"ffmpeg">>, !.killok = <<ok>>]
            /\ UNCHANGED <<stray_mtx, mtx_proc, mtx_launched_here, stop_event,
                           ctl, att>>
       ELSE \E e \in {KillsThenEnsure(okF, okM, o, lag) :
                        okF \in BOOLEAN, okM \in BOOLEAN,
                        o \in {"nopath", "raise", "ok"}, lag \in Lags} :
            LET a == [ensured |-> e.ret, probed |-> FALSE, fresh |-> e.fresh,
                      nff |-> Launched(procs, "ffmpeg"), status0 |-> status_var,
                      kills |-> e.kills]
            IN  /\ e.fresh # 0 => Len(procs) < max_procs
                /\ proc' = 0
                /\ stop_event' = FALSE
                /\ procs' = e.procs
                /\ stray_mtx' = e.stray
                /\ stray_ffmpeg' = (stray_ffmpeg /\ ~e.killok[1])
                /\ mtx_proc' = e.mtx
                /\ mtx_launched_here' = e.flag
                /\ att' = IF e.ret THEN a ELSE NoAttempt
                /\ ctl' = IF e.ret THEN "probe" ELSE "idle"
                /\ ev' = [Event("start_stream",
                                IF e.ret THEN "ensured" ELSE "no_mtx", 0, a)
                            EXCEPT !.kills = e.kills, !.killok = e.killok]

\* start_stream: _wait_for_port(tgt.host, tgt.port, timeout=6.0)
start_stream_wait ==
    /\ ctl = "probe"
    /\ \E ready \in BOOLEAN :
        LET a == [att EXCEPT !.probed = ready]
        IN  /\ ctl' = AfterProbe(ready)
            /\ att' = IF ready THEN a ELSE NoAttempt
            /\ ev' = Event("start_stream",
                           IF ready THEN "ready" ELSE "timeout", 0, a)
    /\ UNCHANGED <<config, calls, stray_mtx, stray_ffmpeg, procs, proc, mtx_proc, mtx_launched_here,
                   stop_event, status_var, _out_tail, _mtx_tail, threads, afterq,
                   reported>>

\* start_stream: subprocess.Popen(cmd, ...), _set_running_state(True) and
\* the three Thread(...).start() calls.
start_stream_launch ==
    /\ ctl = "launch"
    /\ ctl' = "idle"
    /\ att' = NoAttempt
    /\ \/ \E lag \in Lags :
            /\ Len(procs) < max_procs
            /\ procs' = Append(procs, NewProc("ffmpeg", lag))
            /\ proc' = Len(procs) + 1
            /\ status_var' = "Active"
            /\ threads' = threads (+) Spawned
            /\ ev' = Event("start_stream", "active", Len(procs) + 1, att)
       \/   /\ proc' = 0
            /\ UNCHANGED <<procs, status_var, threads>>
            /\ ev' = Event("start_stream", "launch_failed", 0, att)
    /\ UNCHANGED <<config, calls, stray_mtx, stray_ffmpeg, mtx_proc, mtx_launched_here, stop_event, _out_tail,
                   _mtx_tail, afterq, reported>>

\* ------------------------------------------------- stop_stream / destroy
\* What becomes of the signal calls made on process p: they are sent, or
\* the OS refuses them.  Then p.terminate() raises and control goes to the
\* except branch, whose p.kill() raises as well and is passed over (kill()
\* is terminate() on Windows and the same os.kill() elsewhere, so it is
\* refused as terminate() was).  A process that has exited is never
\* signalled, so nothing can be refused.  Refusals are followed where they
\* could cut a handler short, in destroy; a stop_stream called by itself
\* takes its signal calls to be sent.
SignalOutcomes(p) ==
    IF p # 0 /\ procs[p].alive THEN {"sent", "refused"} ELSE {"sent"}

\* The calls a termination makes on a process, in order.
GraceCalls(r, out) ==
    IF out = "refused" \/ Grace(r).forced # r.forced
    THEN <<"terminate", "kill">>
    ELSE <<"terminate">>

\* stop_stream: what is sent to the capture process p: terminate(), the
\* poll loop and kill() on Windows, terminate() alone elsewhere.
StopSignal(r, out) ==
    IF out = "refused" THEN [r EXCEPT !.refused = TRUE]
    ELSE IF os_name = "nt" THEN Grace(r) ELSE terminate(r)

StopCalls(r, out) ==
    IF out = "refused" \/ os_name = "nt" THEN GraceCalls(r, out)
    ELSE <<"terminate">>

\* The calls cs as made on process p.
On(p, cs) == [i \in 1..Len(cs) |-> <<p, cs[i]>>]

\* stop_stream, as the new values of the fields it writes, with the calls
\* it makes on the capture process.
stop_stream_effect_keep(out) ==
    [stop_event |-> TRUE, proc |-> proc, status_var |-> status_var,
     procs |-> IF proc = 0 THEN procs
               ELSE [procs EXCEPT ![proc] =
                        [StopSignal(@, out) EXCEPT !.stopreq = TRUE]],
     log |-> IF proc = 0 THEN <<>> ELSE On(proc, StopCalls(procs[proc], out))]

stop_stream_effect_noreturn(out) ==
    [stop_event |-> TRUE,
     proc |-> 0,
     status_var |-> "Inactive",
     procs |-> IF proc = 0 THEN procs
               ELSE [procs EXCEPT ![proc] =
                        [StopSignal(@, out) EXCEPT !.stopreq = TRUE]],
     log |-> IF proc = 0 THEN <<>> ELSE On(proc, StopCalls(procs[proc], out))]

stop_stream_effect(out) ==
    [stop_event |-> TRUE,
     proc |-> 0,
     status_var |-> IF proc = 0 THEN status_var ELSE "Inactive",
     procs |-> IF proc = 0 THEN procs
               ELSE [procs EXCEPT ![proc] =
                        [StopSignal(@, out) EXCEPT !.stopreq = TRUE]],
     log |-> IF proc = 0 THEN <<>> ELSE On(proc, StopCalls(procs[proc], out))]

StopRes(out) ==
    IF proc = 0 THEN "none"
    ELSE IF ~procs[proc].alive THEN "exited"
    ELSE IF out = "refused" THEN "refused" ELSE "live"

stop_stream ==
    /\ ctl = "idle"
    /\ \E out \in {"sent"} :
        LET s == stop_stream_effect(out)
        IN  /\ stop_event' = s.stop_event
            /\ proc' = s.proc
            /\ status_var' = s.status_var
            /\ procs' = s.procs
            /\ ev' = [Event("stop_stream", StopRes(out), proc, NoAttempt)
                        EXCEPT !.log = s.log]
    /\ UNCHANGED <<config, calls, stray_mtx, stray_ffmpeg, mtx_proc, mtx_launched_here, _out_tail,
                   _mtx_tail, threads, afterq, reported, ctl, att>>

\* _stop_mediamtx applied to the process table ps: the process of the
\* handle is signalled (terminate(), the poll loop, kill()), no other.
_stop_mediamtx_by_name(ps, out) ==
    [mtx_proc |-> 0,
     mtx_launched_here |-> IF mtx_proc = 0 THEN mtx_launched_here ELSE FALSE,
     procs |-> IF mtx_proc = 0 THEN ps
               ELSE [ps EXCEPT ![mtx_proc] =
                        [(IF out = "refused" THEN [@ EXCEPT !.refused = TRUE]
                          ELSE Grace(@))
                            EXCEPT !.stopreq = TRUE]],
     stray |-> FALSE,
     log |-> IF mtx_proc = 0 THEN <<>>
             ELSE On(mtx_proc, GraceCalls(ps[mtx_proc], out))]

_stop_mediamtx(ps, out) ==
    [mtx_proc |-> 0,
     mtx_launched_here |-> IF mtx_proc = 0 THEN mtx_launched_here ELSE FALSE,
     procs |-> IF mtx_proc = 0 THEN ps
               ELSE [ps EXCEPT ![mtx_proc] =
                        [(IF out = "refused" THEN [@ EXCEPT !.refused = TRUE]
                          ELSE Grace(@))
                            EXCEPT !.stopreq = TRUE]],
     stray |-> stray_mtx,
     log |-> IF mtx_proc = 0 THEN <<>>
             ELSE On(mtx_proc, GraceCalls(ps[mtx_proc], out))]

\* toggle_stream: if self.proc and self.proc.poll() is None
toggle_stream_by_status ==
    IF status_var = "Active"
    THEN stop_stream
    ELSE start_stream

toggle_stream ==
    IF proc # 0 /\ procs[proc].alive
    THEN stop_stream
    ELSE start_stream

\* destroy: whether control reaches "if self.mtx_launched_here:
\* self._stop_mediamtx()" with the flag set, after a stop_stream whose
\* signal calls ended as `out`: stop_stream catches what they raise.
RelayStopDueUnlessRefused(out) == mtx_launched_here /\ out # "refused"

RelayStopDue(out) == mtx_launched_here

\* destroy: stop_stream(); super().destroy(); then _stop_mediamtx() "only
\* if we launched it".  It runs when the root window is destroyed, after
\* which mainloop() and main() return: the daemon threads and the pending
\* callbacks end with the program.
destroy ==
    /\ ctl = "idle"
    /\ ctl' = "destroyed"
    /\ \E out \in SignalOutcomes(proc), mout \in SignalOutcomes(mtx_proc) :
        LET s == stop_stream_effect(out)
            m == _stop_mediamtx(s.procs, mout)
        IN  /\ stop_event' = s.stop_event
            /\ proc' = s.proc
            /\ status_var' = s.status_var
            /\ IF RelayStopDue(out)
               THEN /\ procs' = m.procs
                    /\ stray_mtx' = m.stray
                    /\ mtx_proc' = m.mtx_proc
                    /\ mtx_launched_here' = m.mtx_launched_here
                    /\ ev' = [Event("destroy", StopRes(out), proc, NoAttempt)
                                EXCEPT !.log = s.log \o m.log]
               ELSE /\ procs' = s.procs
                    /\ UNCHANGED <<stray_mtx, mtx_proc, mtx_launched_here>>
                    /\ ev' = [Event("destroy", StopRes(out), proc, NoAttempt)
                                EXCEPT !.log = s.log]
    /\ threads' = EmptyBag
    /\ afterq' = 0
    /\ UNCHANGED <<config, calls, stray_ffmpeg, _out_tail, _mtx_tail, reported,
                   att>>

\* ------------------------------------------------- threads and callbacks
Running(type, pc) == {t \in BagToSet(threads) : t.type = type /\ t.pc = pc}

\* A thread moves from t to the threads in bag b (none when it ends).
Move(t, b) == threads' = (threads (-) One(t)) (+) b

\* _watch_process: p = self.proc; if not p: return
_watch_process_init ==
    /\ ctl # "destroyed"
    /\ \E t \in Running("watch", "init") :
        Move(t, IF proc = 0 THEN EmptyBag
                ELSE One(Thread("watch", "wait", proc, 0)))
    /\ ev' = ThreadEv
    /\ UNCHANGED <<config, calls, stray_mtx, stray_ffmpeg, procs, proc, mtx_proc, mtx_launched_here,
                   stop_event, status_var, _out_tail, _mtx_tail, afterq, reported,
                   ctl, att>>

\* _watch_process: rc = p.wait(); self.master.after(0, _reset_ui)
_watch_process_wait ==
    /\ ctl # "destroyed"
    /\ \E t \in Running("watch", "wait") :
        /\ ~procs[t.p].alive
        /\ Move(t, One(Thread("watch", "check", t.p, procs[t.p].rc)))
    /\ afterq' = afterq + 1
    /\ ev' = ThreadEv
    /\ UNCHANGED <<config, calls, stray_mtx, stray_ffmpeg, procs, proc, mtx_proc, mtx_launched_here,
                   stop_event, status_var, _out_tail, _mtx_tail, reported, ctl, att>>

\* if rc != 0 and not self.stop_event.is_set():
ShouldReport(rc) == rc # 0 /\ ~stop_event

\* _watch_process: the error dialog with the last lines of the tail.
_watch_process_check ==
    /\ ctl # "destroyed"
    /\ \E t \in Running("watch", "check") :
        /\ Move(t, EmptyBag)
        /\ reported' = IF ShouldReport(t.rc)
                       THEN reported \cup {[p |-> t.p, rc |-> t.rc,
                                            tail |-> LastLines(_out_tail),
                                            stopreq |-> procs[t.p].stopreq]}
                       ELSE reported
    /\ ev' = ThreadEv
    /\ UNCHANGED <<config, calls, stray_mtx, stray_ffmpeg, procs, proc, mtx_proc, mtx_launched_here,
                   stop_event, status_var, _out_tail, _mtx_tail, afterq, ctl, att>>

\* _reset_ui, run by the Tk event loop between two handlers.
_reset_ui ==
    /\ ctl = "idle"
    /\ afterq > 0
    /\ afterq' = afterq - 1
    /\ proc' = 0
    /\ status_var' = "Inactive"
    /\ ev' = Event("reset_ui", "-", proc, NoAttempt)
    /\ UNCHANGED <<config, calls, stray_mtx, stray_ffmpeg, procs, mtx_proc, mtx_launched_here, stop_event,
                   _out_tail, _mtx_tail, threads, reported, ctl, att>>

\* _pump_output: if not self.proc or not self.proc.stdout: return
_pump_output_init ==
    /\ ctl # "destroyed"
    /\ \E t \in Running("pump", "init") :
        Move(t, IF proc = 0 THEN EmptyBag
                ELSE One(Thread("pump", "run", proc, 0)))
    /\ ev' = ThreadEv
    /\ UNCHANGED <<config, calls, stray_mtx, stray_ffmpeg, procs, proc, mtx_proc, mtx_launched_here,
                   stop_event, status_var, _out_tail, _mtx_tail, afterq, reported,
                   ctl, att>>

\* _pump_output: for line in stdout: self._out_tail.append(ln);
\* if self.stop_event.is_set(): break
_pump_output_line ==
    /\ ctl # "destroyed"
    /\ \E t \in Running("pump", "run"), k \in Bursts :
        /\ procs[t.p].bursts < max_bursts
        /\ _out_tail' = AppendLines(_out_tail, t.p, procs[t.p].out, k)
        /\ procs' = [procs EXCEPT ![t.p].out = @ + k, ![t.p].bursts = @ + 1]
        /\ Move(t, IF stop_event THEN EmptyBag ELSE One(t))
    /\ ev' = ThreadEv
    /\ UNCHANGED <<config, calls, stray_mtx, stray_ffmpeg, proc, mtx_proc, mtx_launched_here, stop_event,
                   status_var, _mtx_tail, afterq, reported, ctl, att>>

\* _pump_output: end of the stream of an exited process.
_pump_output_end ==
    /\ ctl # "destroyed"
    /\ \E t \in Running("pump", "run") :
        /\ ~procs[t.p].alive
        /\ Move(t, EmptyBag)
    /\ ev' = ThreadEv
    /\ UNCHANGED <<config, calls, stray_mtx, stray_ffmpeg, procs, proc, mtx_proc, mtx_launched_here,
                   stop_event, status_var, _out_tail, _mtx_tail, afterq, reported,
                   ctl, att>>

\* _pump_mtx_output: p = self.mtx_proc; if not p or not p.stdout: return
_pump_mtx_output_init ==
    /\ ctl # "destroyed"
    /\ \E t \in Running("mtxpump", "init") :
        Move(t, IF mtx_proc = 0 THEN EmptyBag
                ELSE One(Thread("mtxpump", "run", mtx_proc, 0)))
    /\ ev' = ThreadEv
    /\ UNCHANGED <<config, calls, stray_mtx, stray_ffmpeg, procs, proc, mtx_proc, mtx_launched_here,
                   stop_event, status_var, _out_tail, _mtx_tail, afterq, reported,
                   ctl, att>>

\* _pump_mtx_output: for line in p.stdout: self._mtx_tail.append(ln)
_pump_mtx_output_line ==
    /\ ctl # "destroyed"
    /\ \E t \in Running("mtxpump", "run"), k \in Bursts :
        /\ procs[t.p].bursts < max_bursts
        /\ _mtx_tail' = AppendLines(_mtx_tail, t.p, procs[t.p].out, k)
        /\ procs' = [procs EXCEPT ![t.p].out = @ + k, ![t.p].bursts = @ + 1]
    /\ ev' = ThreadEv
    /\ UNCHANGED <<config, calls, stray_mtx, stray_ffmpeg, proc, mtx_proc, mtx_launched_here, stop_event,
                   status_var, _out_tail, threads, afterq, reported, ctl, att>>

\* _pump_mtx_output: end of the stream of an exited relay.
_pump_mtx_output_end ==
    /\ ctl # "destroyed"
    /\ \E t \in Running("mtxpump", "run") :
        /\ ~procs[t.p].alive
        /\ Move(t, EmptyBag)
    /\ ev' = ThreadEv
    /\ UNCHANGED <<config, calls, stray_mtx, stray_ffmpeg, procs, proc, mtx_proc, mtx_launched_here,
                   stop_event, status_var, _out_tail, _mtx_tail, afterq, reported,
                   ctl, att>>

\* ----------------------------------------------------------- environment
\* A child process ends by itself (or is ended from outside the program).
ProcExit ==
    /\ ctl # "destroyed"
    /\ \E i \in Pids :
        /\ procs[i].alive
        /\ \E r \in {Exited(procs[i], rc) : rc \in ExitCodes} :
            procs' = [procs EXCEPT ![i] = r]
    /\ ev' = ThreadEv
    /\ UNCHANGED <<config, calls, stray_mtx, stray_ffmpeg, proc, mtx_proc, mtx_launched_here, stop_event,
                   status_var, _out_tail, _mtx_tail, threads, afterq, reported,
                   ctl, att>>

\* ---------------------------------------------------------- helper calls
\* A controller just constructed on a configured machine, with nothing
\* else running: where a helper is called by itself.
AtRest ==
    /\ max_procs = MaxProcs
    /\ max_bursts = MaxBursts
    /\ os_name = "posix"
    /\ ffmpeg_path = TRUE
    /\ device_var = TRUE
    /\ stray_mtx = FALSE
    /\ stray_ffmpeg = FALSE
    /\ procs = <<>>
    /\ proc = 0
    /\ mtx_proc = 0
    /\ mtx_launched_here = FALSE
    /\ stop_event = FALSE
    /\ status_var = "Inactive"
    /\ _out_tail = <<>>
    /\ _mtx_tail = <<>>
    /\ threads = EmptyBag
    /\ afterq = 0
    /\ reported = {}
    /\ ctl = "idle"
    /\ att = NoAttempt
    /\ ev = [Event("init", "-", 0, NoAttempt)
               EXCEPT !.kills = <<"mediamtx">>, !.killok = <<TRUE>>]

\* _rtsp_target called with any texts in the three entries.
InitRtspTarget ==
    /\ AtRest
    /\ host_var \in HostTexts
    /\ port_var \in PortTexts
    /\ path_var \in PathTexts
    /\ tgt = NoTarget
    /\ wfp = NoCall

\* tgt = self._rtsp_target(); tgt.url
call_rtsp_target ==
    /\ tgt = NoTarget
    /\ tgt' = _rtsp_target @@ [url |-> url(_rtsp_target)]
    /\ UNCHANGED <<config, wfp, session>>

SpecRtspTarget == InitRtspTarget /\ [][call_rtsp_target]_vars

\* _wait_for_port called with any timeout, with or without a listener.
InitWaitForPort ==
    /\ AtRest
    /\ host_var = DefaultHost
    /\ port_var = DefaultPort
    /\ path_var = DefaultPath
    /\ tgt = NoTarget
    /\ wfp \in {Called(t, l) : t \in Timeouts, l \in BOOLEAN}

NextWaitForPort ==
    \/ _wait_for_port_loop
    \/ _wait_for_port_try
    \/ _wait_for_port_sleep
    \/ PortBound

SpecWaitForPort == InitWaitForPort /\ [][NextWaitForPort]_vars

\* A session that streams, in a run long enough to fill the tails: the
\* relay and the capture process run, and the two pumps and the watcher
\* have read their handles.
InitTails ==
    /\ max_procs = MaxProcs
    /\ max_bursts = MaxTailBursts
    /\ os_name \in {"nt", "posix"}
    /\ ffmpeg_path = TRUE
    /\ device_var = TRUE
    /\ host_var = DefaultHost
    /\ port_var = DefaultPort
    /\ path_var = DefaultPath
    /\ tgt = NoTarget
    /\ wfp = NoCall
    /\ stray_mtx = FALSE
    /\ stray_ffmpeg = FALSE
    /\ procs = <<NewProc("mediamtx", 0), NewProc("ffmpeg", 0)>>
    /\ mtx_proc = 1
    /\ mtx_launched_here = TRUE
    /\ proc = 2
    /\ stop_event = FALSE
    /\ status_var = "Active"
    /\ _out_tail = <<>>
    /\ _mtx_tail = <<>>
    /\ threads = One(Thread("pump", "run", 2, 0))
                    (+) One(Thread("watch", "wait", 2, 0))
                    (+) One(Thread("mtxpump", "run", 1, 0))
    /\ afterq = 0
    /\ reported = {}
    /\ ctl = "idle"
    /\ att = NoAttempt
    /\ ev = ThreadEv

\* The two pumps at work.
NextTails == _pump_output_line \/ _pump_mtx_output_line

SpecTails == InitTails /\ [][NextTails]_vars

\* ------------------------------------------------------------------ Next
\* The handlers of the control thread.
Control ==
    \/ start_stream
    \/ start_stream_wait
    \/ start_stream_launch
    \/ stop_stream
    \/ toggle_stream
    \/ destroy
    \/ _reset_ui

Watchers ==
    \/ _watch_process_init
    \/ _watch_process_wait
    \/ _watch_process_check

Pumps ==
    \/ _pump_output_init
    \/ _pump_output_line
    \/ _pump_output_end
    \/ _pump_mtx_output_init
    \/ _pump_mtx_output_line
    \/ _pump_mtx_output_end

\* The session controller: the control thread, the exit watchers and the
\* child processes.  The pump threads write the two tails only, which
\* nothing here reads but the text of the error dialog, so they are left
\* where start_stream put them.
Next == Control \/ Watchers \/ ProcExit

Spec == Init /\ [][Next]_vars

\* The same in a run with room for a second capture process.
SpecTwoCaptures == InitTwoCaptures /\ [][Next]_vars

\* The same with the pump threads running.
NextOut == Next \/ Pumps

SpecOut == Init /\ [][NextOut]_vars

\* A second session: the first one is over.  Its relay still runs, with
\* its pump; its capture process has written a burst of lines and exited
\* with code 0, its threads have ended and its _reset_ui has run.
InitSecondSession ==
    /\ max_procs = MaxProcs + 1
    /\ max_bursts = MaxBursts
    /\ os_name \in {"nt", "posix"}
    /\ ffmpeg_path = TRUE
    /\ device_var = TRUE
    /\ host_var = DefaultHost
    /\ port_var = DefaultPort
    /\ path_var = DefaultPath
    /\ tgt = NoTarget
    /\ wfp = NoCall
    /\ stray_mtx = FALSE
    /\ stray_ffmpeg = FALSE
    /\ \E k \in Bursts :
        /\ procs = <<NewProc("mediamtx", 0),
                     [Exited(NewProc("ffmpeg", 0), 0)
                        EXCEPT !.out = k, !.bursts = 1]>>
        /\ _out_tail = AppendLines(<<>>, 2, 0, k)
    /\ _mtx_tail = <<>>
    /\ mtx_proc = 1
    /\ mtx_launched_here = TRUE
    /\ proc = 0
    /\ stop_event = FALSE
    /\ status_var = "Inactive"
    /\ threads = One(Thread("mtxpump", "run", 1, 0))
    /\ afterq = 0
    /\ reported = {}
    /\ ctl = "idle"
    /\ att = NoAttempt
    /\ ev = Event("reset_ui", "-", 2, NoAttempt)

\* The session controller with the pumps of the capture processes, which
\* write the tail that the error dialog shows.  (The relay pumps write
\* _mtx_tail only, which nothing reads.)
NextDiag ==
    \/ Next
    \/ _pump_output_init
    \/ _pump_output_line
    \/ _pump_output_end

SpecSecondSession == InitSecondSession /\ [][NextDiag]_vars

\* ------------------------------------------------------------------------
\* Properties of the session controller
\* ------------------------------------------------------------------------

\* C1: a capture process is launched only in a start_stream call in which
\* _ensure_mediamtx_running returned true and then _wait_for_port returned
\* true; no launch precedes or skips either step.
C1_LaunchAfterRelayAndProbe ==
    [][Launched(procs', "ffmpeg") > Launched(procs, "ffmpeg")
         => ctl = "launch" /\ att.ensured /\ att.probed]_vars

C1_Witness ==
    /\ ev.op = "start_stream" /\ ev.res = "active"
    /\ ev.att.ensured /\ ev.att.probed
    /\ proc # 0 /\ procs[proc].kind = "ffmpeg"

\* C2: start_stream called while the capture process of the handle is alive
\* changes nothing: no process is launched or killed, and the two handles,
\* the relay-launched flag, the stop flag, the status and the threads stay
\* as they are, however often it is called.
C2_DuplicateStartIsNoOp ==
    [][(ev'.op = "start_stream" /\ ctl = "idle"
          /\ proc # 0 /\ procs[proc].alive)
         => UNCHANGED <<procs, proc, mtx_proc, mtx_launched_here, stop_event,
                        status_var, threads, afterq, ctl>>]_vars

C2_Witness ==
    /\ ev.op = "start_stream" /\ ev.res = "dup"
    /\ proc # 0 /\ procs[proc].alive /\ status_var = "Active"

Quiescent ==
    /\ ctl = "idle"
    /\ afterq = 0
    /\ \A t \in BagToSet(threads) : t.type # "watch"

\* C4, at rest: once the watchers and the control thread have nothing left
\* to do, every capture process that exited with a non-zero code and on which
\* stop_stream was never called has been reported with at most 20 tail lines,
\* and the handle no longer refers to it.
C4_UnsolicitedFailureReported ==
    Quiescent =>
        \A p \in Pids :
            (procs[p].kind = "ffmpeg" /\ ~procs[p].alive /\ procs[p].rc # 0
               /\ ~procs[p].stopreq)
              => /\ \E r \in reported : r.p = p /\ Len(r.tail) <= DiagLines
                 /\ proc # p

\* C5: the exit of a capture process on which stop_stream had been called is
\* never reported as an error.
C5_RequestedStopNotReported ==
    \A r \in reported : ~r.stopreq

\* C6: when _wait_for_port times out the attempt ends there: no capture
\* process was or is launched in it, the capture handle is empty, no thread
\* is started and the status is the one the attempt began with.
C6_TimeoutEndsAttempt ==
    [][(ctl = "probe" /\ ev'.res = "timeout")
         => /\ ctl' = "idle"
            /\ proc = 0 /\ proc' = 0
            /\ procs' = procs
            /\ Launched(procs, "ffmpeg") = att.nff
            /\ threads' = threads
            /\ status_var = att.status0 /\ status_var' = status_var]_vars

C6_Witness ==
    /\ ev.op = "start_stream" /\ ev.res = "timeout"
    /\ ctl = "idle" /\ proc = 0
    /\ Launched(procs, "ffmpeg") = ev.att.nff

\* C7: after a probe timeout in an attempt that launched the relay, that
\* relay is not alive and the relay handle is cleared.
C7_TimeoutTearsDownFreshRelay ==
    (ev.res = "timeout" /\ ev.att.fresh # 0)
        => ~procs[ev.att.fresh].alive /\ mtx_proc = 0

\* C8: after a failed capture launch the capture handle is empty, the status
\* is not Active and a relay launched in the same attempt is not alive.
C8_LaunchFailureTearsDown ==
    ev.res = "launch_failed"
        => /\ proc = 0
           /\ status_var # "Active"
           /\ ev.att.fresh # 0 => ~procs[ev.att.fresh].alive

\* C9: after destroy, in a run in which the OS refused no signal call, no
\* process launched by the controller is alive and both handles are cleared.
C9_DestroyReapsAll ==
    (ctl = "destroyed" /\ \A i \in Pids : ~procs[i].refused)
        => /\ \A i \in Pids : ~procs[i].alive
           /\ proc = 0
           /\ mtx_proc = 0

\* C10: a process on which stop_stream or _stop_mediamtx has completed, and
\* to which the OS did not refuse the signal calls, is not alive, whether or
\* not it honoured the graceful signal.
C10_TerminationEndsProcess ==
    \A i \in Pids :
        (procs[i].stopreq /\ ~procs[i].refused) => ~procs[i].alive

\* C11: stop_stream (alone or in destroy) on a capture handle whose process
\* has exited, and _stop_mediamtx on a relay handle whose process has exited,
\* clear the handle and leave every process as it was: alive flag, return
\* code and forced-kill mark unchanged.  A stop_stream right after a
\* stop_stream changes nothing.
C11_ExitedHandleTermination ==
    [][/\ (ev'.op \in {"stop_stream", "destroy"}
             /\ proc # 0 /\ ~procs[proc].alive)
          => /\ proc' = 0
             /\ [procs'[proc] EXCEPT !.stopreq = FALSE]
                  = [procs[proc] EXCEPT !.stopreq = FALSE]
             /\ ~procs'[proc].forced
       /\ (ev'.op = "destroy" /\ mtx_launched_here
             /\ mtx_proc # 0 /\ ~procs[mtx_proc].alive)
          => /\ mtx_proc' = 0
             /\ ~mtx_launched_here'
             /\ [procs'[mtx_proc] EXCEPT !.stopreq = FALSE]
                  = [procs[mtx_proc] EXCEPT !.stopreq = FALSE]
             /\ ~procs'[mtx_proc].forced
       /\ (ev.op = "stop_stream" /\ ev'.op = "stop_stream")
          => UNCHANGED <<procs, proc, mtx_proc, mtx_launched_here,
                         stop_event, status_var, threads, afterq, ctl>>]_vars

C11_Witness ==
    /\ ev.op = "stop_stream" /\ ev.res = "exited"
    /\ proc = 0
    /\ ~procs[ev.p].alive /\ ~procs[ev.p].forced /\ procs[ev.p].rc = 0

\* C12 as stated: stop_stream with no capture handle leaves the processes,
\* the status, both handles, the relay-launched flag and the stop flag
\* unchanged.
C12_IdleStopChangesNothing ==
    [][(ev'.op = "stop_stream" /\ proc = 0)
         => UNCHANGED <<procs, status_var, proc, mtx_proc, mtx_launched_here,
                        stop_event>>]_vars

\* C12 amended: stop_stream with no capture handle sets the stop flag and
\* changes nothing else: no process is signalled, and the status, both
\* handles, the relay-launched flag, the threads and the pending callbacks
\* stay as they are.
C12_IdleStopSetsFlagOnly ==
    [][(ev'.op = "stop_stream" /\ proc = 0)
         => /\ stop_event'
            /\ UNCHANGED <<procs, status_var, proc, mtx_proc,
                           mtx_launched_here, threads, afterq, ctl>>]_vars

C12_Witness ==
    /\ ev.op = "stop_stream" /\ ev.res = "none"
    /\ proc = 0 /\ stop_event
    /\ status_var = "Active"
    /\ mtx_proc # 0 /\ procs[mtx_proc].alive /\ mtx_launched_here

\* C13: __init__ calls kill-by-name once, for the relay executable only.
\* Every step of start_stream that launches a process comes after the
\* kill-by-name calls of the same start_stream call, made for the capture
\* executable and then for the relay executable: the relay is launched in
\* the step that made the two calls and is not their victim, the capture in
\* an attempt that made them.  No other operation calls kill-by-name, and
\* a start_stream call that reaches the relay step has made both calls.
C13_KillByNameBeforeLaunch ==
    /\ ev.kills = <<"mediamtx">>
    /\ [][/\ Len(procs') > Len(procs)
             => /\ ev'.op = "start_stream"
                /\ (IF ctl = "launch" THEN att.kills ELSE ev'.kills)
                      = <<"ffmpeg", "mediamtx">>
                /\ procs'[Len(procs')].alive
          /\ ev'.res \in {"ensured", "no_mtx"}
             => ev'.kills = <<"ffmpeg", "mediamtx">>
          /\ ev'.kills # <<>>
             => /\ ev'.op = "start_stream"
                /\ ctl = "idle"
                /\ ~IsDuplicateStart
                /\ ffmpeg_path]_vars

C13_Witness ==
    /\ ev.op = "start_stream" /\ ev.res = "active"
    /\ ev.att.kills = <<"ffmpeg", "mediamtx">>
    /\ ev.att.fresh # 0 /\ procs[ev.att.fresh].alive
    /\ proc # 0 /\ procs[proc].alive

\* C14: a kill-by-name call that fails (no kill tool, no matching process,
\* an error of the kill command) aborts nothing.  __init__ completes.  A
\* start_stream call that passes the duplicate guard and the two
\* precondition checks always reaches _ensure_mediamtx_running, and when
\* both kills failed the call goes on exactly as _ensure_mediamtx_running
\* does from the processes as they were: the attempt continues to the probe
\* if that returned true and ends there if not.
C14_KillFailureIsNotFatal ==
    /\ (ev.op = "init" /\ ctl = "idle")
    /\ [][/\ (ev'.op = "start_stream" /\ ctl = "idle" /\ ~IsDuplicateStart
                /\ ffmpeg_path /\ device_var)
             => /\ ev'.res \in {"ensured", "no_mtx"}
                /\ ev'.killok \in {<<f, m>> : f \in BOOLEAN, m \in BOOLEAN}
                /\ ev'.res = "ensured" <=> ctl' = "probe"
                /\ ev'.res = "ensured" <=> Alive(procs', mtx_proc')
          /\ (ev'.op = "start_stream" /\ ev'.killok = <<FALSE, FALSE>>)
             => \E o \in {"nopath", "raise", "ok"}, lag \in Lags :
                    LET e == _ensure_mediamtx_running(procs, o, lag)
                    IN  /\ procs' = e.procs
                        /\ mtx_proc' = e.mtx
                        /\ mtx_launched_here' = e.flag
                        /\ ctl' = IF e.ret THEN "probe" ELSE "idle"]_vars

C14_Witness ==
    /\ ev.op = "start_stream" /\ ev.res = "ensured"
    /\ ev.killok = <<FALSE, FALSE>>
    /\ ctl = "probe"
    /\ ev.att.fresh # 0 /\ procs[ev.att.fresh].alive

\* C15: stop_stream changes no relay process.  destroy changes a relay
\* process only if it is the one of the relay handle and mtx_launched_here
\* was set, which is the case only for a process this controller launched.
\* Neither touches a relay that this controller did not launch.
C15_RelayStoppedOnlyIfLaunchedHere ==
    [][/\ ev'.op = "stop_stream"
          => \A i \in Pids : procs[i].kind = "mediamtx" => procs'[i] = procs[i]
       /\ ev'.op = "destroy"
          => \A i \in Pids :
                (procs[i].kind = "mediamtx" /\ procs'[i] # procs[i])
                   => i = mtx_proc /\ mtx_launched_here
       /\ ev'.op \in {"stop_stream", "destroy"}
          => stray_mtx' = stray_mtx]_vars

C15_Witness ==
    /\ ev.op = "destroy"
    /\ stray_mtx
    /\ mtx_proc = 0
    /\ \E i \in Pids : procs[i].kind = "mediamtx" /\ procs[i].stopreq
                       /\ ~procs[i].alive

\* Nothing is left for the program to do by itself: the control thread is
\* in the event loop with no callback pending and every watcher is blocked
\* in p.wait() on a live process.
Settled ==
    /\ ctl = "idle"
    /\ afterq = 0
    /\ \A t \in BagToSet(threads) :
          t.type = "watch" => t.pc = "wait" /\ procs[t.p].alive

\* C16, at rest: while the capture process of the handle runs, the status is
\* Active and no stop was requested, the relay of the relay handle is alive:
\* the program does not sit with a dead relay behind an Active status.
C16_RelayExitSurfaced ==
    (Settled /\ status_var = "Active" /\ ~stop_event
       /\ proc # 0 /\ procs[proc].alive /\ mtx_proc # 0)
        => procs[mtx_proc].alive

\* C17: no exit with code 0 is reported as an error; and at rest a capture
\* process that exited with code 0, on which stop_stream was never called,
\* is no longer referred to by the handle, and the status is Inactive unless
\* a live capture process is supervised.
C17_CleanExitReturnsToIdle ==
    /\ \A r \in reported : r.rc # 0
    /\ Quiescent =>
        \A p \in Pids :
            (procs[p].kind = "ffmpeg" /\ ~procs[p].alive /\ procs[p].rc = 0
               /\ ~procs[p].stopreq)
              => /\ proc # p
                 /\ status_var = "Inactive" \/ Alive(procs, proc)

\* C18: a start_stream call made while the handle is empty or refers to a
\* process that is not alive is never taken for a duplicate, whether or not
\* a watcher's _reset_ui is still pending: it clears the handle and goes on
\* to the precondition checks, and when these pass to the kill-by-name calls
\* and the relay step, from where the attempt continues to the probe if the
\* relay is there.
C18_DeadHandleNeverBlocksStart ==
    [][(ev'.op = "start_stream" /\ ctl = "idle"
          /\ ~(proc # 0 /\ procs[proc].alive))
         => /\ ev'.res \in {"no_ffmpeg", "bad_settings", "ensured", "no_mtx"}
            /\ proc' = 0
            /\ (ffmpeg_path /\ device_var)
               => /\ ev'.res \in {"ensured", "no_mtx"}
                  /\ ev'.kills = <<"ffmpeg", "mediamtx">>
            /\ ev'.res = "ensured" => ctl' = "probe"]_vars

C18_Witness ==
    /\ ev.op = "start_stream" /\ ev.res = "ensured"
    /\ ctl = "probe"
    /\ afterq > 0
    /\ \E p \in Pids : procs[p].kind = "ffmpeg" /\ ~procs[p].alive
    /\ status_var = "Active"

\* C19: at most one capture process and at most one relay process launched
\* by this controller are alive.
C19_AtMostOneOfEachAlive ==
    /\ Cardinality({i \in Pids : procs[i].kind = "ffmpeg" /\ procs[i].alive}) <= 1
    /\ Cardinality({i \in Pids : procs[i].kind = "mediamtx" /\ procs[i].alive}) <= 1

\* C20: when destroy finds a capture handle and a relay handle with
\* mtx_launched_here set, every terminate() and kill() call it makes on the
\* capture process comes before every call it makes on the relay process,
\* and the relay is terminated (its handle and flag cleared, terminate()
\* called on it) also when the signal calls on the capture process were
\* refused.
C20_CaptureStoppedBeforeRelay ==
    [][(ev'.op = "destroy" /\ proc # 0 /\ mtx_launched_here /\ mtx_proc # 0)
         => /\ \E k \in 1..(Len(ev'.log) - 1) :
                /\ \A i \in 1..k : ev'.log[i][1] = proc
                /\ \A i \in (k + 1)..Len(ev'.log) : ev'.log[i][1] = mtx_proc
                /\ ev'.log[1][2] = "terminate"
                /\ ev'.log[k + 1][2] = "terminate"
            /\ mtx_proc' = 0
            /\ ~mtx_launched_here'
            /\ procs'[mtx_proc].stopreq
            /\ (procs[mtx_proc].alive /\ procs'[mtx_proc].alive)
               => <<mtx_proc, "kill">> = ev'.log[Len(ev'.log)]]_vars

C20_Witness ==
    /\ ev.op = "destroy" /\ ev.res = "refused"
    /\ ev.p # 0 /\ procs[ev.p].alive
    /\ \E i \in Pids : /\ procs[i].kind = "mediamtx"
                       /\ procs[i].stopreq /\ ~procs[i].alive
                       /\ ev.log[Len(ev.log)][1] = i
    /\ mtx_proc = 0

\* The threads of a type that serve process i: those that read its pipe or
\* wait for it, and those started but not yet run when the handle they will
\* read refers to it.
ThreadsOn(type, i, handle) ==
    LET on == {t \in BagToSet(threads) :
                 /\ t.type = type
                 /\ t.pc # "check"
                 /\ IF t.pc = "init" THEN handle = i ELSE t.p = i}
    IN  BagCardinality([t \in on |-> CopiesIn(t, threads)])

\* C21: between two handlers, a live relay of the relay handle has exactly
\* one drain thread, and a live capture process of the capture handle has
\* exactly one drain thread and exactly one exit watcher.
C21_OneDrainPerProcess ==
    ctl = "idle" =>
        /\ Alive(procs, mtx_proc)
           => ThreadsOn("mtxpump", mtx_proc, mtx_proc) = 1
        /\ Alive(procs, proc)
           => /\ ThreadsOn("pump", proc, proc) = 1
              /\ ThreadsOn("watch", proc, proc) = 1

\* The tail after process p, alone, has had n lines appended.
LastOf(p, n) ==
    IF n <= TailCap THEN [i \in 1..n |-> <<p, i>>]
    ELSE [i \in 1..TailCap |-> <<p, n - TailCap + i>>]

\* C22: neither tail ever holds more than 80 lines; after M lines of one
\* process have been appended to a tail it holds all of them when M is at
\* most 80 and exactly the last 80 otherwise, in arrival order, the oldest
\* first.
C22_TailHoldsLast80 ==
    /\ Len(_out_tail) <= TailCap
    /\ Len(_mtx_tail) <= TailCap
    /\ proc # 0 => _out_tail = LastOf(proc, procs[proc].out)
    /\ mtx_proc # 0 => _mtx_tail = LastOf(mtx_proc, procs[mtx_proc].out)

C22_Witness ==
    /\ procs[proc].out > TailCap
    /\ Len(_out_tail) = TailCap
    /\ _out_tail[1] = <<proc, procs[proc].out - TailCap + 1>>
    /\ _out_tail[TailCap] = <<proc, procs[proc].out>>
    /\ procs[mtx_proc].out > TailCap
    /\ Len(_mtx_tail) = TailCap

\* C23: toggle_stream dispatches on the liveness of the capture handle.
\* While the capture handle refers to a live process no toggle_stream step
\* is a start_stream: it is a stop_stream, which sets the stop flag, clears
\* the handle and sets the status to Inactive.  With no handle, or with a
\* handle to an exited process, no toggle_stream step is a stop_stream: it
\* is a start_stream that is not taken for a duplicate, whatever the status
\* shows.
C23_ToggleDispatchesOnLiveness ==
    [][/\ (ctl = "idle" /\ ev'.op = "start_stream"
             /\ proc # 0 /\ procs[proc].alive)
          => ~toggle_stream
       /\ (ctl = "idle" /\ ev'.op = "stop_stream"
             /\ ~(proc # 0 /\ procs[proc].alive))
          => ~toggle_stream
       /\ (ctl = "idle" /\ ev'.op = "stop_stream"
             /\ proc # 0 /\ procs[proc].alive)
          => stop_event' /\ proc' = 0 /\ status_var' = "Inactive"
       /\ (ctl = "idle" /\ ev'.op = "start_stream"
             /\ ~(proc # 0 /\ procs[proc].alive))
          => ev'.res \in {"no_ffmpeg", "bad_settings", "ensured", "no_mtx"}]_vars

C23_Witness ==
    /\ ev.op = "start_stream" /\ ev.res = "ensured"
    /\ status_var = "Active"
    /\ ev.att.status0 = "Active"
    /\ proc = 0
    /\ \E p \in Pids : procs[p].kind = "ffmpeg" /\ ~procs[p].alive
                       /\ ~procs[p].stopreq

\* C24 as stated: a _wait_for_port call that never had a listener returns
\* false, not before its timeout has elapsed and not later than its timeout
\* plus one poll interval.
C24_TimeoutPlusOnePoll ==
    (wfp.pc = "done" /\ ~wfp.listening)
        => /\ ~wfp.ret
           /\ wfp.timeout <= wfp.now
           /\ wfp.now <= wfp.timeout + PollInterval

\* C24 amended: a _wait_for_port call that never had a listener returns
\* false, not before its timeout has elapsed and, its connection attempts
\* taking up to 0.5s and its sleeps 0.2s each, earlier than its timeout plus
\* one connection timeout plus one poll interval.
C24_TimeoutPlusAttemptAndPoll ==
    (wfp.pc = "done" /\ ~wfp.listening)
        => /\ ~wfp.ret
           /\ wfp.timeout <= wfp.now
           /\ wfp.now < wfp.timeout + ConnectTimeout + PollInterval

C24_Witness ==
    /\ wfp.pc = "done" /\ ~wfp.listening /\ ~wfp.ret
    /\ wfp.attempts > 1
    /\ wfp.now > wfp.timeout + PollInterval

\* C25 as stated: a _wait_for_port call returns true exactly when a
\* connection attempt of it succeeded before the deadline, and with a
\* listener bound before the call it returns true on its first attempt,
\* for every timeout.
C25_TrueIffConnectedBeforeDeadline ==
    wfp.pc = "done"
        => /\ wfp.ret <=> (wfp.conn = "connected" /\ wfp.now < wfp.deadline)
           /\ wfp.bound0 => (wfp.ret /\ wfp.attempts = 1)

\* C25 amended: a _wait_for_port call ends by returning, never otherwise.
\* It returns true exactly when its last connection attempt succeeded, and
\* that attempt was begun before the deadline (it may succeed after it).
\* With a listener bound before the call it returns true on its first
\* attempt when the timeout is positive; with a timeout of 0 it makes no
\* attempt and returns false.  After a connection attempt that ended in an
\* error (refused, timed out, any other) the call has not returned: it
\* sleeps and tries again while the deadline is ahead.
C25_TrueIffAttemptConnected ==
    /\ wfp.pc \in {"loop", "try", "sleep", "done"}
    /\ wfp.pc = "done"
        => /\ wfp.ret <=> wfp.conn = "connected"
           /\ wfp.ret => wfp.began < wfp.deadline
           /\ (wfp.bound0 /\ wfp.timeout > 0)
              => (wfp.ret /\ wfp.attempts = 1)
           /\ wfp.timeout = 0 => (~wfp.ret /\ wfp.attempts = 0)
    /\ wfp.pc = "sleep"
        => /\ wfp.conn \in {"refused", "timeout", "error"}
           /\ ~wfp.ret
    /\ wfp.conn \in {"refused", "timeout", "error"}
        => wfp.pc \in {"sleep", "loop", "try", "done"} /\ ~wfp.ret

C25_Witness ==
    /\ wfp.pc = "done" /\ wfp.ret
    /\ ~wfp.bound0
    /\ wfp.attempts > 1
    /\ wfp.began < wfp.deadline
    /\ wfp.now > wfp.deadline

\* C26: the target built by _rtsp_target from any host, port and path text
\* has a port in 1..65535, which is 8554 when the port text does not parse,
\* a path with no leading slash, and the URL rtsp://host:port/path.
C26_TargetWellFormed ==
    tgt # NoTarget
        => /\ tgt.port \in 1..65535
           /\ ~int(port_var).ok => tgt.port = 8554
           /\ tgt.path = <<>> \/ Head(tgt.path) # "/"
           /\ tgt.url = <<"r", "t", "s", "p", ":", "/", "/">> \o tgt.host
                          \o <<":">> \o str(tgt.port) \o <<"/">> \o tgt.path

\* C27: a capture process that is alive and on which stop_stream was never
\* called is the one the capture handle refers to, and the status is
\* Active: no _reset_ui posted for an earlier capture process takes the
\* handle or the status from it.
C27_LiveCaptureStaysSupervised ==
    \A i \in Pids :
        (procs[i].kind = "ffmpeg" /\ procs[i].alive /\ ~procs[i].stopreq)
            => proc = i /\ status_var = "Active"

\* C28: every line of the tail shown in a "Stream stopped" dialog was
\* written by the capture process whose exit the dialog reports.
C28_DiagnosticTailOwnLines ==
    \A r \in reported :
        \A j \in 1..Len(r.tail) : r.tail[j][1] = r.p

\* C29: a start_stream call rejected for an unknown ffmpeg path or for no
\* selected device launches no process and terminates none, of this
\* program or not, and leaves the relay handle, the relay-launched flag and
\* the stop flag as they were.
C29_RejectedStartChangesNothing ==
    [][(ev'.op = "start_stream" /\ ev'.res \in {"no_ffmpeg", "bad_settings"})
         => UNCHANGED <<procs, stray_ffmpeg, stray_mtx, mtx_proc,
                        mtx_launched_here, stop_event>>]_vars

\* C30: mtx_launched_here is set exactly when mtx_proc is not None, and the
\* process of mtx_proc is a relay that this controller launched.
C30_FlagIffRelayHandle ==
    /\ mtx_launched_here <=> mtx_proc # 0
    /\ mtx_proc # 0
        => mtx_proc \in Pids /\ procs[mtx_proc].kind = "mediamtx"

C30_Witness ==
    /\ ev.op = "start_stream" /\ ev.res = "no_mtx"
    /\ mtx_proc = 0 /\ ~mtx_launched_here
    /\ \E i \in Pids : procs[i].kind = "mediamtx" /\ ~procs[i].alive
                       /\ ~procs[i].stopreq

====
